---- MODULE Spec2Model ----
(***************************************************************************)
(* Model of aw_watcher_spotify/main.py: the poll loop of main(), the       *)
(* enrichment data_from_track(), get_current_track() and auth().           *)
(*                                                                         *)
(* Durations are kept in milliseconds (poll_time = 5.0 s is 5000), so the  *)
(* 0.1 s delay of the handlers is 100 and pulsetime = poll_time + 1 s is   *)
(* poll_time + 1000.                                                       *)
(***************************************************************************)
EXTENDS Integers, Sequences, FiniteSets, TLC

VARIABLES
    pc,          \* position of main(): "config", "auth", "poll", "tracker", "sleep", "exited"
    config,      \* the loaded configuration (username, client_id, client_secret, poll_time)
    bucket,      \* TRUE once aw.create_bucket / aw.connect have run
    sp,          \* identity of the Spotify session object held in `sp` (0: none yet)
    last_track,  \* main's local last_track
    track,       \* main's local track
    exit_code,   \* status passed to sys.exit, 0 while running
    started,     \* history: a poll has been attempted
    outcome,     \* history: class of the poll of the current cycle
    polled,      \* history: value returned by get_current_track in the current cycle
    prev_last,   \* history: last_track at the start of the current cycle
    poll_sp,     \* history: session object the poll of the current cycle was made with
    auths,       \* history: number of calls of auth() made so far
    slept,       \* history: sleeps made since the poll of the current cycle
    hb,          \* history: aw.heartbeat calls made in the current cycle
    lines,       \* history: status lines printed in the current cycle
    raised,      \* history: where the tracker step of the current cycle raised
    exc,         \* history: classes of the exception the poll of the current cycle raised
    prev_auths,  \* history: auths at the start of the current cycle
    lookups,     \* history: sp.audio_features calls made in the current cycle
    raw_state,   \* history: what sp.currently_playing returned in the current cycle
    reported     \* history: uris with a track-ended line printed and not polled as
                 \* playing since

vars == <<pc, config, bucket, sp, last_track, track, exit_code, started, outcome,
          polled, prev_last, poll_sp, auths, slept, hb, lines, raised, exc,
          prev_auths, lookups, raw_state, reported>>

-----------------------------------------------------------------------------
(* Bounds *)

\* auth() calls allowed in a run (the initial one included)
MaxAuth == 3

-----------------------------------------------------------------------------
(* Values *)

None == [type |-> "NoneType"]

\* sleep(0.1) of the decode and unknown handlers, in milliseconds
ShortDelay == 100

\* poll_time values of the configuration, in milliseconds (5000 is the default)
PollTimes == {2000, 5000}

Credentials == {"", "set"}

Configs == [username : Credentials, client_id : Credentials,
            client_secret : Credentials, poll_time : PollTimes]

\* popularity as the remote gives it: <<>> is null, <<p>> is the integer p
Popularities == {<<>>, <<0>>, <<50>>}

\* progress_ms values: ten seconds, and a day and 75 seconds
ProgressValues == {10000, 86475000}

TrackItem(u, p) ==
    [type |-> "track", id |-> u, uri |-> u, name |-> "Song",
     artist0 |-> "Artist", album |-> "Album", popularity |-> p]

EpisodeItem(u) ==
    [type |-> "episode", id |-> u, uri |-> u, name |-> "Talk",
     show_publisher |-> "Publisher", show_name |-> "Show"]

\* one track with every popularity, and an episode
Items == {TrackItem("T1", p) : p \in Popularities} \cup {EpisodeItem("E1")}

\* what sp.currently_playing can return
RawResults ==
    {None} \cup [is_playing : BOOLEAN, progress_ms : ProgressValues, item : Items]

\* what a call of sp.audio_features can do: return a list holding the features,
\* return a list holding null, raise SpotifyException, raise something else
AudioOutcomes == {"features", "null", "SpotifyException", "ConnectionError"}

\* what aw.heartbeat can do
HeartbeatOutcomes == {"ok", "raise"}

\* what the construction inside auth() can do
AuthOutcomes == {"session", "SpotifyOauthError"}

\* the classes named by the except clauses of the poll; an exception is
\* modelled by the set of these classes it is an instance of (every one is an
\* Exception)
ExcClasses == {"SpotifyException", "ConnectionError", "JSONDecodeError"}

-----------------------------------------------------------------------------
(* Pure functions *)

Truthy(p) == p # <<>> /\ p[1] # 0

\* what a raw result of sp.currently_playing is: nothing, a paused item, a playing item
RawState(raw) ==
    IF raw = None THEN "nothing" ELSE IF raw.is_playing THEN "playing" ELSE "paused"

\* get_current_track without the is_playing test
get_current_trackAnyItem(raw) ==
    IF raw # None THEN raw ELSE None

\* get_current_track: the raw result when it is playing, else None
get_current_track(raw) ==
    IF raw # None /\ raw.is_playing THEN raw ELSE None

\* the value of sp.audio_features(id)[0] or {} / the except branch
AudioData(af) ==
    IF af = "features" THEN [tempo |-> 120] ELSE <<>>

\* data_from_track with the popularity assignment moved out of the track branch
data_from_trackAnyKind(t, af) ==
    IF af = "ConnectionError"
    THEN [raised |-> TRUE]
    ELSE LET item == t.item
             data == ("popularity" :>
                         IF item.type = "track" /\ Truthy(item.popularity)
                         THEN item.popularity[1] ELSE -1)
                     @@ ("uri" :> item.uri) @@ ("title" :> item.name) @@ AudioData(af)
         IN  [raised |-> FALSE,
              data |->
                IF item.type = "track"
                THEN ("artist" :> item.artist0) @@ ("album" :> item.album) @@ data
                ELSE ("album" :> item.show_name) @@ ("artist" :> item.show_publisher)
                     @@ data]

\* data_from_track: [raised |-> TRUE] when the audio-feature lookup raises
\* something that is not a SpotifyException, else the enriched data
data_from_track(t, af) ==
    IF af = "ConnectionError"
    THEN [raised |-> TRUE]
    ELSE LET item == t.item
             data == ("uri" :> item.uri) @@ ("title" :> item.name) @@ AudioData(af)
         IN  [raised |-> FALSE,
              data |->
                IF item.type = "track"
                THEN ("artist" :> item.artist0) @@ ("album" :> item.album)
                     @@ ("popularity" :>
                            IF Truthy(item.popularity) THEN item.popularity[1] ELSE -1)
                     @@ data
                ELSE IF item.type = "episode"
                THEN ("album" :> item.show_name) @@ ("artist" :> item.show_publisher)
                     @@ data
                ELSE data]

\* timedelta(seconds=ms / 1000) then (int(td.seconds / 60), int(td.seconds % 60));
\* td.seconds is the seconds within the day
song_time(ms) ==
    LET secs == (ms \div 1000) % 86400
    IN  <<secs \div 60, secs % 60>>

\* Classify with the JSONDecodeError clause placed before the ConnectionError clause
ClassifyDecodeFirst(classes) ==
    IF "SpotifyException" \in classes THEN "expired"
    ELSE IF "JSONDecodeError" \in classes THEN "decode"
    ELSE IF "ConnectionError" \in classes THEN "network"
    ELSE "unknown"

\* the except clause that handles an exception of the given classes
Classify(classes) ==
    IF "SpotifyException" \in classes THEN "expired"
    ELSE IF "ConnectionError" \in classes THEN "network"
    ELSE IF "JSONDecodeError" \in classes THEN "decode"
    ELSE "unknown"

-----------------------------------------------------------------------------
(* The tracker step, lines 154-189: the result of the try block *)

EndedLine(last, d) ==
    [kind |-> "ended", time |-> song_time(last.progress_ms), uri |-> d.uri,
     title |-> d.title, artist |-> d.artist, album |-> d.album]

CurrentLine(t, d) ==
    [kind |-> "current", time |-> song_time(t.progress_ms), uri |-> d.uri,
     title |-> d.title, artist |-> d.artist, album |-> d.album]

WaitingLine == [kind |-> "waiting"]

TokenLine == [kind |-> "token"]

\* one call of sp.audio_features, made at `site` for the item t
Lookup(site, t, af) == [site |-> site, id |-> t.item.id, outcome |-> af]

\* lines 156-168: [raised, lines, lookups]
EndedPart(last, cur, afLast, afCmp) ==
    IF last = None
    THEN [raised |-> "no", lines |-> <<>>, lookups |-> <<>>]
    ELSE LET ld == data_from_track(last, afLast)
             l1 == <<Lookup("last", last, afLast)>>
         IN  IF ld.raised
             THEN [raised |-> "enrich_last", lines |-> <<>>, lookups |-> l1]
             ELSE IF cur = None
             THEN [raised |-> "no", lines |-> <<EndedLine(last, ld.data)>>,
                   lookups |-> l1]
             ELSE LET cd == data_from_track(cur, afCmp)
                      l2 == Append(l1, Lookup("cmp", cur, afCmp))
                  IN  IF cd.raised
                      THEN [raised |-> "enrich_cur", lines |-> <<>>, lookups |-> l2]
                      ELSE IF ld.data.uri # cd.data.uri
                      THEN [raised |-> "no", lines |-> <<EndedLine(last, ld.data)>>,
                            lookups |-> l2]
                      ELSE [raised |-> "no", lines |-> <<>>, lookups |-> l2]

\* CurrentPart with pulsetime = poll_time, the one second pad left out
CurrentPartNoPad(cur, afCur, hbOut, poll_time) ==
    IF cur = None
    THEN [raised |-> "no", lines |-> <<WaitingLine>>, hb |-> <<>>, lookups |-> <<>>]
    ELSE LET td == data_from_track(cur, afCur)
             l3 == <<Lookup("cur", cur, afCur)>>
         IN  IF td.raised
             THEN [raised |-> "enrich_cur", lines |-> <<>>, hb |-> <<>>, lookups |-> l3]
             ELSE [raised |-> IF hbOut = "raise" THEN "heartbeat" ELSE "no",
                   lines |-> <<CurrentLine(cur, td.data)>>,
                   hb |-> <<[data |-> td.data, pulsetime |-> poll_time,
                             queued |-> TRUE, result |-> hbOut]>>,
                   lookups |-> l3]

\* lines 170-184: [raised, lines, hb, lookups]
CurrentPart(cur, afCur, hbOut, poll_time) ==
    IF cur = None
    THEN [raised |-> "no", lines |-> <<WaitingLine>>, hb |-> <<>>, lookups |-> <<>>]
    ELSE LET td == data_from_track(cur, afCur)
             l3 == <<Lookup("cur", cur, afCur)>>
         IN  IF td.raised
             THEN [raised |-> "enrich_cur", lines |-> <<>>, hb |-> <<>>, lookups |-> l3]
             ELSE [raised |-> IF hbOut = "raise" THEN "heartbeat" ELSE "no",
                   lines |-> <<CurrentLine(cur, td.data)>>,
                   hb |-> <<[data |-> td.data, pulsetime |-> poll_time + 1000,
                             queued |-> TRUE, result |-> hbOut]>>,
                   lookups |-> l3]

\* the uris of the track-ended lines among ls
EndedUris(ls) == {ls[i].uri : i \in {j \in DOMAIN ls : ls[j].kind = "ended"}}

\* lines 154-189: [raised, lines, hb, lookups, last_track]; line 186 is reached
\* only when nothing before it raised
TrackerStep(last, cur, afLast, afCmp, afCur, hbOut, poll_time) ==
    LET e == EndedPart(last, cur, afLast, afCmp)
    IN  IF e.raised # "no"
        THEN [raised |-> e.raised, lines |-> e.lines, hb |-> <<>>,
              lookups |-> e.lookups, last_track |-> last]
        ELSE LET c == CurrentPart(cur, afCur, hbOut, poll_time)
             IN  [raised |-> c.raised, lines |-> e.lines \o c.lines, hb |-> c.hb,
                  lookups |-> e.lookups \o c.lookups,
                  last_track |-> IF c.raised # "no" THEN last ELSE cur]

-----------------------------------------------------------------------------
(* Initial state and actions *)

Init ==
    /\ pc = "config"
    /\ config \in Configs
    /\ bucket = FALSE
    /\ sp = 0
    /\ last_track = None
    /\ track = None
    /\ exit_code = 0
    /\ started = FALSE
    /\ outcome = "none"
    /\ polled = None
    /\ prev_last = None
    /\ poll_sp = 0
    /\ auths = 0
    /\ slept = <<>>
    /\ hb = <<>>
    /\ lines = <<>>
    /\ raised = "no"
    /\ exc = {}
    /\ prev_auths = 0
    /\ lookups = <<>>
    /\ raw_state = "nothing"
    /\ reported = {}

\* LoadConfig exiting only when all three credentials are empty
LoadConfigAllEmpty ==
    /\ pc = "config"
    /\ IF config.username = "" /\ config.client_id = "" /\ config.client_secret = ""
       THEN /\ pc' = "exited"
            /\ exit_code' = 1
            /\ bucket' = bucket
       ELSE /\ pc' = "auth"
            /\ exit_code' = exit_code
            /\ bucket' = TRUE
    /\ UNCHANGED <<config, sp, last_track, track, started, outcome, polled, prev_last,
                   poll_sp, auths, slept, hb, lines, raised, exc, prev_auths, lookups,
                   raw_state, reported>>

\* lines 107-124: the credential check, then bucket creation and connect
LoadConfig ==
    /\ pc = "config"
    /\ IF config.username = "" \/ config.client_id = "" \/ config.client_secret = ""
       THEN /\ pc' = "exited"
            /\ exit_code' = 1
            /\ bucket' = bucket
       ELSE /\ pc' = "auth"
            /\ exit_code' = exit_code
            /\ bucket' = TRUE
    /\ UNCHANGED <<config, sp, last_track, track, started, outcome, polled, prev_last,
                   poll_sp, auths, slept, hb, lines, raised, exc, prev_auths, lookups,
                   raw_state, reported>>

\* lines 126-128: the initial auth() and the loop's locals
InitialAuth ==
    /\ pc = "auth"
    /\ \E a \in AuthOutcomes :
          /\ auths' = auths + 1
          /\ IF a = "session"
             THEN /\ sp' = auths + 1
                  /\ pc' = "poll"
                  /\ exit_code' = exit_code
             ELSE /\ sp' = sp
                  /\ pc' = "exited"
                  /\ exit_code' = 1
    /\ last_track' = None
    /\ track' = None
    /\ UNCHANGED <<config, bucket, started, outcome, polled, prev_last, poll_sp,
                   slept, hb, lines, raised, exc, prev_auths, lookups,
                   raw_state, reported>>

\* what every poll does to the history of the cycle it starts
BeginCycle ==
    /\ started' = TRUE
    /\ prev_last' = last_track
    /\ poll_sp' = sp
    /\ prev_auths' = auths
    /\ hb' = <<>>
    /\ raised' = "no"
    /\ lookups' = <<>>

\* lines 130-131: get_current_track returns
PollReturns ==
    /\ pc = "poll"
    /\ BeginCycle
    /\ \E raw \in RawResults :
          /\ track' = get_current_track(raw)
          /\ polled' = get_current_track(raw)
          /\ raw_state' = RawState(raw)
          /\ reported' = IF get_current_track(raw) = None THEN reported
                         ELSE reported \ {raw.item.uri}
    /\ outcome' = "ok"
    /\ pc' = "tracker"
    /\ slept' = <<>>
    /\ lines' = <<>>
    /\ exc' = {}
    /\ UNCHANGED <<config, bucket, sp, last_track, exit_code, auths>>

\* lines 134-137: except SpotifyException
HandleSpotifyException ==
    /\ auths < MaxAuth
    /\ outcome' = "expired"
    /\ lines' = <<TokenLine>>
    /\ slept' = <<>>
    /\ auths' = auths + 1
    /\ \E a \in AuthOutcomes :
          IF a = "session"
          THEN /\ sp' = auths + 1
               /\ pc' = "poll"
               /\ exit_code' = exit_code
          ELSE /\ sp' = sp
               /\ pc' = "exited"
               /\ exit_code' = 1

\* HandleConnectionError without its `continue`: control falls into the try block
HandleConnectionErrorFallsThrough ==
    /\ outcome' = "network"
    /\ lines' = <<>>
    /\ slept' = <<config.poll_time>>
    /\ pc' = "tracker"
    /\ UNCHANGED <<sp, exit_code, auths>>

\* lines 138-143: except ConnectionError
HandleConnectionError ==
    /\ outcome' = "network"
    /\ lines' = <<>>
    /\ slept' = <<config.poll_time>>
    /\ pc' = "poll"
    /\ UNCHANGED <<sp, exit_code, auths>>

\* lines 144-147: except json.JSONDecodeError
HandleJSONDecodeError ==
    /\ outcome' = "decode"
    /\ lines' = <<>>
    /\ slept' = <<ShortDelay>>
    /\ pc' = "poll"
    /\ UNCHANGED <<sp, exit_code, auths>>

\* HandleException without its sleep
HandleExceptionNoSleep ==
    /\ outcome' = "unknown"
    /\ lines' = <<>>
    /\ slept' = <<>>
    /\ pc' = "poll"
    /\ UNCHANGED <<sp, exit_code, auths>>

\* HandleException without its `continue`: control falls into the try block
HandleExceptionFallsThrough ==
    /\ outcome' = "unknown"
    /\ lines' = <<>>
    /\ slept' = <<ShortDelay>>
    /\ pc' = "tracker"
    /\ UNCHANGED <<sp, exit_code, auths>>

\* lines 148-152: except Exception
HandleException ==
    /\ outcome' = "unknown"
    /\ lines' = <<>>
    /\ slept' = <<ShortDelay>>
    /\ pc' = "poll"
    /\ UNCHANGED <<sp, exit_code, auths>>

\* lines 130-152: get_current_track raises, the matching handler runs
PollRaises ==
    /\ pc = "poll"
    /\ BeginCycle
    /\ \E classes \in SUBSET ExcClasses :
          LET h == Classify(classes)
          IN  /\ exc' = classes
              /\ \/ h = "expired" /\ HandleSpotifyException
                 \/ h = "network" /\ HandleConnectionError
                 \/ h = "decode" /\ HandleJSONDecodeError
                 \/ h = "unknown" /\ HandleException
    /\ polled' = None
    /\ raw_state' = "nothing"
    /\ UNCHANGED <<config, bucket, last_track, track, reported>>

\* Tracker without the except clause: an exception of the try block ends the process
TrackerUncaught ==
    /\ pc = "tracker"
    /\ \E afLast \in AudioOutcomes, afCmp \in AudioOutcomes, afCur \in AudioOutcomes,
          hbOut \in HeartbeatOutcomes :
          LET r == TrackerStep(last_track, track, afLast, afCmp, afCur, hbOut,
                               config.poll_time)
          IN  /\ last_track' = r.last_track
              /\ hb' = r.hb
              /\ lines' = r.lines
              /\ raised' = r.raised
              /\ lookups' = r.lookups
              /\ reported' = reported \cup EndedUris(r.lines)
              /\ pc' = IF r.raised # "no" THEN "exited" ELSE "sleep"
              /\ exit_code' = IF r.raised # "no" THEN 1 ELSE exit_code
    /\ UNCHANGED <<config, bucket, sp, track, started, outcome, polled,
                   prev_last, poll_sp, auths, slept, exc, prev_auths,
                   raw_state>>

\* lines 154-189: the try block and its except clause
Tracker ==
    /\ pc = "tracker"
    /\ \E afLast \in AudioOutcomes, afCmp \in AudioOutcomes, afCur \in AudioOutcomes,
          hbOut \in HeartbeatOutcomes :
          LET r == TrackerStep(last_track, track, afLast, afCmp, afCur, hbOut,
                               config.poll_time)
          IN  /\ last_track' = r.last_track
              /\ hb' = r.hb
              /\ lines' = r.lines
              /\ raised' = r.raised
              /\ lookups' = r.lookups
              /\ reported' = reported \cup EndedUris(r.lines)
    /\ pc' = "sleep"
    /\ UNCHANGED <<config, bucket, sp, track, exit_code, started, outcome, polled,
                   prev_last, poll_sp, auths, slept, exc, prev_auths,
                   raw_state>>

\* line 190: sleep(poll_time)
Sleep ==
    /\ pc = "sleep"
    /\ slept' = Append(slept, config.poll_time)
    /\ pc' = "poll"
    /\ UNCHANGED <<config, bucket, sp, last_track, track, exit_code, started, outcome,
                   polled, prev_last, poll_sp, auths, hb, lines, raised, exc,
                   prev_auths, lookups, raw_state, reported>>

Next ==
    \/ LoadConfig
    \/ InitialAuth
    \/ PollReturns
    \/ PollRaises
    \/ Tracker
    \/ Sleep

Spec == Init /\ [][Next]_vars

-----------------------------------------------------------------------------
(* The loop with no limit on the number of credential-expired polls: the      *)
(* count of auth() calls stops at MaxAuth and session identities are reused   *)
(* in turn, the fresh one always differing from the discarded one.            *)

\* lines 134-137: except SpotifyException, enabled at every poll
HandleSpotifyExceptionAgain ==
    /\ outcome' = "expired"
    /\ lines' = <<TokenLine>>
    /\ slept' = <<>>
    /\ auths' = IF auths < MaxAuth THEN auths + 1 ELSE auths
    /\ \E a \in AuthOutcomes :
          IF a = "session"
          THEN /\ sp' = (sp % MaxAuth) + 1
               /\ pc' = "poll"
               /\ exit_code' = exit_code
          ELSE /\ sp' = sp
               /\ pc' = "exited"
               /\ exit_code' = 1

\* lines 130-152: get_current_track raises, the matching handler runs
PollRaisesAgain ==
    /\ pc = "poll"
    /\ BeginCycle
    /\ \E classes \in SUBSET ExcClasses :
          LET h == Classify(classes)
          IN  /\ exc' = classes
              /\ \/ h = "expired" /\ HandleSpotifyExceptionAgain
                 \/ h = "network" /\ HandleConnectionError
                 \/ h = "decode" /\ HandleJSONDecodeError
                 \/ h = "unknown" /\ HandleException
    /\ polled' = None
    /\ raw_state' = "nothing"
    /\ UNCHANGED <<config, bucket, last_track, track, reported>>

NextLive ==
    \/ LoadConfig
    \/ InitialAuth
    \/ PollReturns
    \/ PollRaisesAgain
    \/ Tracker
    \/ Sleep

\* the loop is one thread and every call it makes returns or raises, so the
\* program always takes its next step
\* the initial states with the default poll_time
InitLive == Init /\ config.poll_time = 5000

LiveSpec == InitLive /\ [][NextLive]_vars /\ WF_vars(NextLive)

-----------------------------------------------------------------------------
(* Properties *)

\* the tracker step of a cycle whose poll succeeded has run
CycleDone == outcome = "ok" /\ pc \in {"sleep", "poll"}

PollFailed == outcome \in {"expired", "network", "decode", "unknown"}

HasLine(k) == \E i \in DOMAIN lines : lines[i].kind = k

\* the boundary condition of the cycle: a remembered item, and nothing playing
\* or another identifier playing
Boundary ==
    /\ prev_last # None
    /\ polled = None \/ polled.item.uri # prev_last.item.uri

FailedLookup(l) == l.outcome \in {"SpotifyException", "ConnectionError"}

\* C1: after every cycle whose poll succeeded, last_track equals the value the
\* poll of that cycle returned (the playing item, or None), whichever branch
\* fired in the cycle.
C1_LastTrackIsCurrent ==
    CycleDone => last_track = polled

\* C2: in every cycle whose poll succeeded, a track-ended line is printed if
\* and only if last_track was present at the start of the cycle and the polled
\* value is None or has another uri.
C2_TrackEndedIffBoundary ==
    CycleDone => (HasLine("ended") <=> Boundary)

\* C3: in every cycle whose poll succeeded, exactly one heartbeat is submitted
\* when the polled value is present and none when it is None; never more than
\* one submission is attempted in a cycle.
C3_HeartbeatIffCurrent ==
    CycleDone => Len(hb) = (IF polled # None THEN 1 ELSE 0)

\* C4: when the audio-feature lookup made to enrich the playing Track for the
\* heartbeat fails, whatever the failure, the heartbeat of the cycle is still
\* submitted, without audio-feature fields and with title, artist, album and
\* popularity.
C4_LookupFailureKeepsHeartbeat ==
    (/\ CycleDone
     /\ polled # None
     /\ polled.item.type = "track"
     /\ \E i \in DOMAIN lookups : lookups[i].site = "cur" /\ FailedLookup(lookups[i]))
    => /\ Len(hb) = 1
       /\ "tempo" \notin DOMAIN hb[1].data
       /\ {"title", "artist", "album", "popularity"} \subseteq DOMAIN hb[1].data

\* C5: the process exits only before the first poll; once the loop has polled,
\* no poll outcome and no re-authentication ends it.
C5_ExitOnlyBeforeFirstPoll ==
    pc = "exited" => ~started

\* C6: after a poll that raised the credential-expired signal the loop holds a
\* fresh session object and is about to poll again, having slept not at all,
\* submitted no heartbeat and left last_track as it was.
C6_ExpiredRebuildsAndRetries ==
    outcome = "expired" =>
        /\ pc = "poll"
        /\ sp # poll_sp
        /\ sp = auths
        /\ slept = <<>>
        /\ hb = <<>>
        /\ last_track = prev_last

\* C7: in every cycle whose poll fails the tracker step is skipped: last_track
\* is unchanged, no heartbeat is submitted and no track-ended, currently-playing
\* or waiting line is printed, whatever `track` still holds.
C7_FailedPollSkipsTracker ==
    PollFailed =>
        /\ pc \in {"poll", "exited"}
        /\ last_track = prev_last
        /\ hb = <<>>
        /\ lookups = <<>>
        /\ ~HasLine("ended") /\ ~HasLine("current") /\ ~HasLine("waiting")

\* a failed poll with `track` holding a playing item that last_track does not
C7_Witness ==
    /\ PollFailed
    /\ pc = "poll"
    /\ track # None
    /\ last_track = None

\* C8: a poll failure is handled by the first matching clause in the order
\* credential-expired, network, undecodable, anything else; the sleep before
\* the retry is none, poll_time, 100 ms and 100 ms respectively, and auth() is
\* called again only for credential-expired.
C8_ClassPriorityAndSleep ==
    PollFailed =>
        /\ outcome = "expired" <=> "SpotifyException" \in exc
        /\ outcome = "network" <=>
              ("ConnectionError" \in exc /\ "SpotifyException" \notin exc)
        /\ outcome = "decode" <=> exc = {"JSONDecodeError"}
        /\ outcome = "unknown" <=> exc = {}
        /\ outcome = "expired" => slept = <<>>
        /\ outcome = "network" => slept = <<config.poll_time>>
        /\ outcome \in {"decode", "unknown"} => slept = <<100>>
        /\ auths # prev_auths <=> outcome = "expired"

\* a network failure that is also an undecodable response, slept poll_time
C8_Witness ==
    /\ outcome = "network"
    /\ "JSONDecodeError" \in exc
    /\ slept = <<config.poll_time>>
    /\ auths = prev_auths

\* C9: when enrichment or the heartbeat submission raises in a cycle whose poll
\* succeeded, last_track still equals the polled value after the cycle.
C9_RaiseKeepsLastTrackUpdate ==
    (CycleDone /\ raised # "no") => last_track = polled

\* C10: every cycle whose poll succeeded goes from the tracker step, raised or
\* not, to exactly one sleep of poll_time and then to the next poll; the
\* process does not exit.
C10_SuccessSleepsOnceThenPolls ==
    [][/\ pc = "tracker" => (pc' = "sleep" /\ slept' = <<>> /\ exit_code' = 0)
       /\ pc = "sleep" => (pc' = "poll" /\ slept' = <<config.poll_time>>)
       /\ (outcome = "ok" /\ pc = "poll") => slept = <<config.poll_time>>]_vars

\* a cycle whose tracker step raised has slept poll_time and is about to poll
C10_Witness ==
    /\ outcome = "ok"
    /\ raised # "no"
    /\ pc = "poll"
    /\ slept = <<config.poll_time>>

\* C11: the enriched data depends on the item kind: for an Episode it has no
\* popularity field and artist and album are the show's publisher and name;
\* for a Track it always has a popularity field, which is -1 when the remote
\* popularity is null.
C11_EnrichmentByKind ==
    \A i \in DOMAIN hb :
        LET d == hb[i].data
            item == polled.item
        IN  /\ item.type = "episode" =>
                /\ "popularity" \notin DOMAIN d
                /\ d.artist = item.show_publisher
                /\ d.album = item.show_name
            /\ item.type = "track" =>
                /\ "popularity" \in DOMAIN d
                /\ item.popularity = <<>> => d.popularity = -1
                /\ d.artist = item.artist0
                /\ d.album = item.album

\* a heartbeat built from an Episode
C11_Witness ==
    /\ Len(hb) = 1
    /\ polled.item.type = "episode"
    /\ hb[1].data.uri = polled.item.uri

\* C12: every heartbeat submitted, before or after poll failures and
\* re-authentications, has pulsetime = poll_time + 1 s, with the poll_time the
\* sleep of the cycle uses.
C12_PulsetimeIsPollTimePlusOne ==
    /\ \A i \in DOMAIN hb : hb[i].pulsetime = config.poll_time + 1000
    /\ (hb # <<>> /\ pc = "poll") => slept = <<config.poll_time>>

\* a heartbeat submitted after a re-authentication, followed by the sleep
C12_Witness ==
    /\ Len(hb) = 1
    /\ auths > 1
    /\ pc = "poll"
    /\ hb[1].pulsetime = config.poll_time + 1000

\* C13: with an empty username, client_id or client_secret the process exits
\* with a nonzero status before the loop: no bucket, no auth() call, no poll,
\* no heartbeat.
C13_MissingCredentialExits ==
    (config.username = "" \/ config.client_id = "" \/ config.client_secret = "") =>
        /\ pc \in {"config", "exited"}
        /\ pc = "exited" => exit_code # 0
        /\ ~bucket
        /\ auths = 0 /\ sp = 0
        /\ ~started
        /\ hb = <<>>

\* the exit taken for one empty credential among set ones
C13_Witness ==
    /\ pc = "exited"
    /\ exit_code = 1
    /\ config.username = "set" /\ config.client_id = "set"
    /\ config.client_secret = ""

\* C14: a polled item with is_playing = false is handled like an empty poll
\* result: last_track is always None or an item polled as playing, a paused
\* item gives the cycle of an empty result, and no heartbeat is submitted for it.
C14_PausedIsNothing ==
    /\ last_track # None => last_track.is_playing
    /\ track # None => track.is_playing
    /\ raw_state = "paused" => (polled = None /\ hb = <<>> /\ ~HasLine("current"))
    /\ hb # <<>> => raw_state = "playing"
    /\ (CycleDone /\ raw_state = "paused" /\ raised = "no") =>
          (last_track = None /\ HasLine("waiting"))

\* a paused item polled after a playing one: the track-ended line, no heartbeat
C14_Witness ==
    /\ CycleDone
    /\ raw_state = "paused"
    /\ prev_last # None
    /\ HasLine("ended")
    /\ last_track = None

\* C15: the time of a track-ended line is computed from the progress p of
\* last_track: minutes = floor(p / 60000) and seconds = floor(p / 1000) mod 60,
\* for every p >= 0.
C15_EndedTimeFromLastProgress ==
    \A i \in DOMAIN lines :
        lines[i].kind = "ended" =>
            lines[i].time = <<prev_last.progress_ms \div 60000,
                              (prev_last.progress_ms \div 1000) % 60>>

\* C16: for a Track whose remote popularity is an integer p in 0..100 the
\* popularity of the heartbeat data is p; -1 appears only when the remote gives
\* no popularity.
C16_PopularityPreserved ==
    \A i \in DOMAIN hb :
        polled.item.type = "track" =>
            /\ polled.item.popularity # <<>> =>
                  hb[i].data.popularity = polled.item.popularity[1]
            /\ hb[i].data.popularity = -1 => polled.item.popularity = <<>>

\* C17: no track-ended line is printed for an item that already had one and
\* has not been polled as playing since.
C17_BoundaryReportedOnce ==
    [][pc = "tracker" =>
          \A i \in DOMAIN lines' :
              lines'[i].kind = "ended" => lines'[i].uri \notin reported]_vars

\* C18: every heartbeat is submitted in a cycle whose poll succeeded and
\* carries the uri of the item that poll returned, never that of last_track or
\* of an item polled earlier.
C18_HeartbeatIsOfPolledItem ==
    \A i \in DOMAIN hb :
        /\ outcome = "ok"
        /\ polled # None
        /\ hb[i].data.uri = polled.item.uri
        /\ track = polled

\* a heartbeat for a new item, with another item remembered, after a
\* re-authentication
C18_Witness ==
    /\ Len(hb) = 1
    /\ auths > 1
    /\ prev_last # None
    /\ prev_last.item.uri # polled.item.uri
    /\ hb[1].data.uri = polled.item.uri

\* C19: in every run that does not exit, a sleep occurs infinitely often: the
\* loop cannot go on polling without ever sleeping.
C19_SleepsInfinitelyOften ==
    []<>(slept # <<>> \/ pc = "exited")

\* C19 as amended: a poll is made with no sleep since the previous poll only
\* when the previous poll raised the credential-expired signal; after every
\* other poll outcome the loop sleeps before it polls again.
C19_NoSleepOnlyAfterExpired ==
    (pc = "poll" /\ started /\ outcome # "expired") => slept # <<>>

\* about to poll again with no sleep, after a third auth() call
C19_Witness ==
    /\ pc = "poll"
    /\ outcome = "expired"
    /\ slept = <<>>
    /\ auths > 2

====
